---------------------------- MODULE Spec2Model ----------------------------
(* Model of the two confirmation waiters of DefaultProvider (Provider.go):  *)
(* WaitMined and WaitFinalized, with the context, the tickers and the RPC   *)
(* replies they consume.                                                    *)
(*                                                                          *)
(* A Go pointer is modelled as a sequence of length at most one: << >> is   *)
(* nil and <<v>> points to v.  An error is a record [wrap, cause]: cause is *)
(* the innermost error ("nil" for no error) and wrap is the prefix added by *)
(* fmt.Errorf("...: %w", err) ("" when the error is returned bare).         *)
EXTENDS Integers, Sequences, FiniteSets, TLC

\* ----------------------------------------------------------------- bounds
\* Largest block number a receipt carries.
MaxBlock == 2
\* Fetches counted per call: the counters saturate at MaxAttempts + 1.
MaxAttempts == 3
\* Number of calls made on one provider in a behaviour.
MaxCalls == 2
\* Largest deadline of a context, in ticks.
MaxDeadline == 2

\* The clock is followed a little beyond the largest deadline.
MaxNow == MaxDeadline + 2
\* Finalized headers range over numbers below and above every receipt block.
MaxHead == MaxBlock + 1

VARIABLES
  pc,          \* position of the caller's goroutine
  op,          \* the operation called: "none", "WaitMined", "WaitFinalized"
  calls,       \* number of calls made so far
  ctxErr,      \* ctx.Err(): "nil", "Canceled" or "DeadlineExceeded"
  deadline,    \* ticks until the deadline of ctx at call time, 0: no deadline
  minedTicker, \* queryTicker of WaitMined: "none", "running", "stopped"
  minedC,      \* a tick is buffered in WaitMined's queryTicker.C
  finTicker,   \* queryTicker of WaitFinalized: "none", "running", "stopped"
  finC,        \* a tick is buffered in WaitFinalized's queryTicker.C
  lastFetch,   \* receipt, err of the latest GetTransactionReceipt (line 343)
  receipt,     \* WaitFinalized's local receipt (line 357)
  lastHead,    \* reply of the latest finalized-block fetch (line 368)
  ret,         \* the value returned to the caller: [receipt, err]
  \* history of the call in progress, read by the properties only
  attempts,    \* receipt fetches made (saturates at MaxAttempts + 1)
  ticks,       \* ticks taken by WaitMined's select (saturates)
  finAttempts, \* finalized-block fetches made (saturates)
  mined,       \* first receipt reply that had a block number: [at, receipt]
  finalAt,     \* first finalized-block fetch whose number reached the receipt's
  failAt,      \* first finalized-block fetch that failed or had no header
  cancelPc,    \* where the goroutine was when ctx became done ("" if it did not)
  now,         \* ticks elapsed since the call (followed when ctx has a deadline)
  lag,         \* a tick passed while the goroutine was not blocked in a select
  prev         \* what is remembered of the previous call

vars == << pc, op, calls, ctxErr, deadline, minedTicker, minedC, finTicker,
           finC, lastFetch, receipt, lastHead, ret, attempts, ticks,
           finAttempts, mined, finalAt, failAt, cancelPc, now, lag, prev >>

\* ------------------------------------------------------------ data values
NoErr == [wrap |-> "", cause |-> "nil"]
\* errors of a done context: context.Canceled, context.DeadlineExceeded
CtxErrs == {"Canceled", "DeadlineExceeded"}

\* *TransactionReceipt values: BlockNumber is nil or a block number
Receipts == { [blockNumber |-> b] : b \in {<< >>} \cup { <<n>> : n \in 1..MaxBlock } }

\* What p.c.Call(&resp, "eth_getTransactionReceipt", txHash) can produce:
\* an error, a null result, or a receipt.
ReceiptReplies ==
  { [err |-> "Transport", resp |-> << >>], [err |-> "nil", resp |-> << >>] }
    \cup { [err |-> "nil", resp |-> <<r>>] : r \in Receipts }

\* The replies for a transaction whose receipt never becomes available.
UnminedReplies ==
  { reply \in ReceiptReplies :
      reply.resp = << >> \/ reply.resp[1].blockNumber = << >> }

\* What the eth_getBlockByNumber(finalized) call can produce on its own:
\* an error, a null result, or a header with a number.
HeaderReplies ==
  { [err |-> "Transport", head |-> << >>], [err |-> "nil", head |-> << >>] }
    \cup { [err |-> "nil", head |-> <<n>>] : n \in 0..MaxHead }

\* The replies of CallContext(ctx, ...): once ctx is done the call can fail
\* with ctx.Err(), and a reply that arrived first can still be delivered.
CallContextReplies(cerr) ==
  IF cerr = "nil" THEN HeaderReplies
  ELSE HeaderReplies \cup { [err |-> cerr, head |-> << >>] }

Min(a, b) == IF a < b THEN a ELSE b

Count(n) == Min(n + 1, MaxAttempts + 1)

\* ctx.Err() as an error value
CtxError_Canceled(cerr) == [wrap |-> "", cause |-> "Canceled"]

CtxError(cerr) == [wrap |-> "", cause |-> cerr]

\* fmt.Errorf(prefix + ": %w", err)
Wrap(prefix, err) == [wrap |-> prefix, cause |-> err.cause]

\* time.NewTicker(time.Second) and the deferred queryTicker.Stop()
NewTicker == "running"

Stop_Forgotten(t) == t

Stop(t) == "stopped"

\* -------------------------------------------------------- pure operations
\* GetTransactionReceipt: error wrapped, null result -> ethereum.NotFound
GetTransactionReceipt(reply) ==
  IF reply.err # "nil"
    THEN [receipt |-> << >>,
          err |-> [wrap |-> "failed to query eth_getTransactionReceipt",
                   cause |-> reply.err]]
  ELSE IF reply.resp = << >>
    THEN [receipt |-> << >>, err |-> [wrap |-> "", cause |-> "NotFound"]]
  ELSE [receipt |-> reply.resp, err |-> NoErr]

\* WaitMined's test: err == nil && receipt.BlockNumber != nil
IsMined_ErrOnly(res) == res.err = NoErr

IsMined(res) ==
  /\ res.err = NoErr
  /\ res.receipt[1].blockNumber # << >>

\* The cases of  select { case <-ctx.Done(): ... case <-queryTicker.C: }
\* that are ready; Go takes any one of the ready cases.
SelectReady_Spin(cerr, tickBuffered) ==
  (IF cerr # "nil" THEN {"done"} ELSE {}) \cup {"tick"}

SelectReady_TickFirst(cerr, tickBuffered) ==
  IF tickBuffered THEN {"tick"} ELSE IF cerr # "nil" THEN {"done"} ELSE {}

SelectReady(cerr, tickBuffered) ==
  (IF cerr # "nil" THEN {"done"} ELSE {}) \cup (IF tickBuffered THEN {"tick"} ELSE {})

\* WaitFinalized, lines 369-371: a null header becomes ethereum.NotFound
FinalizedErr_AnyNilHead(reply) ==
  IF reply.head = << >>
    THEN [wrap |-> "", cause |-> "NotFound"]
  ELSE [wrap |-> "", cause |-> reply.err]

FinalizedErr(reply) ==
  IF reply.err = "nil" /\ reply.head = << >>
    THEN [wrap |-> "", cause |-> "NotFound"]
  ELSE [wrap |-> "", cause |-> reply.err]

\* blockHead.Number.Cmp(receipt.BlockNumber) >= 0
IsFinalized_Strict(head, rcpt) == head[1] > rcpt[1].blockNumber[1]

IsFinalized(head, rcpt) == head[1] >= rcpt[1].blockNumber[1]

\* What WaitMined's caller does with WaitMined's result (r, e).
\* Called directly, the result is the caller's.  Inside WaitFinalized
\* (lines 357-365): an error is wrapped and returned, a receipt without a
\* block number is an error, otherwise the finalization ticker is created.
AfterWaitMined_Unwrapped(r, e) ==
  IF op = "WaitMined" \/ e # NoErr
    THEN /\ pc' = "done"
         /\ ret' = [receipt |-> r, err |-> e]
         /\ UNCHANGED << receipt, finTicker, finC >>
  ELSE /\ pc' = "fin_fetch"
       /\ receipt' = r
       /\ finTicker' = NewTicker
       /\ finC' = FALSE
       /\ UNCHANGED ret

AfterWaitMined(r, e) ==
  IF op = "WaitMined"
    THEN /\ pc' = "done"
         /\ ret' = [receipt |-> r, err |-> e]
         /\ UNCHANGED << receipt, finTicker, finC >>
  ELSE IF e # NoErr
    THEN /\ pc' = "done"
         /\ ret' = [receipt |-> << >>,
                    err |-> Wrap("failed to wait for tx is mined", e)]
         /\ UNCHANGED << receipt, finTicker, finC >>
  ELSE IF r[1].blockNumber = << >>
    THEN /\ pc' = "done"
         /\ ret' = [receipt |-> << >>,
                    err |-> [wrap |-> "", cause |-> "empty tx block number"]]
         /\ receipt' = r
         /\ UNCHANGED << finTicker, finC >>
  ELSE /\ pc' = "fin_fetch"
       /\ receipt' = r
       /\ finTicker' = NewTicker
       /\ finC' = FALSE
       /\ UNCHANGED ret

\* WaitMined, lines 344-352, with the result res of the fetch: return the
\* receipt when it is mined, otherwise go to the select.
MinedStep_FailFast(res) ==
  IF IsMined(res)
    THEN /\ minedTicker' = Stop(minedTicker)
         /\ AfterWaitMined(res.receipt, NoErr)
  ELSE IF res.err # NoErr
    THEN /\ minedTicker' = Stop(minedTicker)
         /\ AfterWaitMined(<< >>, res.err)
  ELSE /\ pc' = "mined_select"
       /\ UNCHANGED << minedTicker, receipt, finTicker, finC, ret >>

MinedStep(res) ==
  IF IsMined(res)
    THEN /\ minedTicker' = Stop(minedTicker)
         /\ AfterWaitMined(res.receipt, NoErr)
    ELSE /\ pc' = "mined_select"
         /\ UNCHANGED << minedTicker, receipt, finTicker, finC, ret >>

\* WaitFinalized, lines 369-383, with the reply of the fetch: fail on an
\* error or a null header, return the receipt when the finalized block has
\* reached the receipt's block, otherwise go to the select.
FinStep_Retry(reply) ==
  IF FinalizedErr(reply) = NoErr /\ IsFinalized(reply.head, receipt)
    THEN /\ ret' = [receipt |-> receipt, err |-> NoErr]
         /\ finTicker' = Stop(finTicker)
         /\ pc' = "done"
    ELSE /\ pc' = "fin_select"
         /\ UNCHANGED << ret, finTicker >>

FinStep(reply) ==
  IF FinalizedErr(reply) # NoErr
    THEN /\ ret' = [receipt |-> << >>,
                    err |-> Wrap("failed to get finalized block", FinalizedErr(reply))]
         /\ finTicker' = Stop(finTicker)
         /\ pc' = "done"
  ELSE IF IsFinalized(reply.head, receipt)
    THEN /\ ret' = [receipt |-> receipt, err |-> NoErr]
         /\ finTicker' = Stop(finTicker)
         /\ pc' = "done"
  ELSE /\ pc' = "fin_select"
       /\ UNCHANGED << ret, finTicker >>

\* ------------------------------------------------------------------- Init
NoResult == [receipt |-> << >>, err |-> NoErr]
NoReply == [err |-> "nil", head |-> << >>]
NotMined == [at |-> 0, receipt |-> << >>]
NoPrev == [first |-> << >>, ret |-> NoResult, attempts |-> 0, ticks |-> 0]

Init ==
  /\ pc = "idle"
  /\ op = "none"
  /\ calls = 0
  /\ ctxErr = "nil"
  /\ deadline = 0
  /\ minedTicker = "none"
  /\ minedC = FALSE
  /\ finTicker = "none"
  /\ finC = FALSE
  /\ lastFetch = NoResult
  /\ receipt = << >>
  /\ lastHead = NoReply
  /\ ret = NoResult
  /\ attempts = 0
  /\ ticks = 0
  /\ finAttempts = 0
  /\ mined = NotMined
  /\ finalAt = 0
  /\ failAt = 0
  /\ cancelPc = ""
  /\ now = 0
  /\ lag = FALSE
  /\ prev = NoPrev

\* What a later call remembers of the call that just returned: a WaitMined
\* whose first reply had a block number, or any other call.
Summary ==
  IF pc = "done" /\ op = "WaitMined" /\ mined.at = 1
    THEN [first |-> mined.receipt, ret |-> ret, attempts |-> attempts, ticks |-> ticks]
  ELSE NoPrev

\* ---------------------------------------------------------------- actions
\* A call of WaitMined or WaitFinalized with a context that is live, with
\* or without a deadline, or already done.  WaitMined's ticker is created
\* on entry (line 340; WaitFinalized enters WaitMined at once, line 357).
Call(operation, cerr, dl) ==
  /\ pc \in {"idle", "done"}
  /\ calls < MaxCalls
  /\ cerr # "nil" => dl = 0
  /\ prev' = Summary
  /\ calls' = calls + 1
  /\ op' = operation
  /\ ctxErr' = cerr
  /\ cancelPc' = IF cerr = "nil" THEN "" ELSE "call"
  /\ deadline' = dl
  /\ now' = 0
  /\ lag' = FALSE
  /\ minedTicker' = NewTicker
  /\ minedC' = FALSE
  /\ finTicker' = "none"
  /\ finC' = FALSE
  /\ lastFetch' = NoResult
  /\ receipt' = << >>
  /\ lastHead' = NoReply
  /\ ret' = NoResult
  /\ attempts' = 0
  /\ ticks' = 0
  /\ finAttempts' = 0
  /\ mined' = NotMined
  /\ finalAt' = 0
  /\ failAt' = 0
  /\ pc' = "mined_fetch"

\* WaitMined, lines 343-346: one receipt fetch and the test of its result.
MinedFetch(replies) ==
  /\ pc = "mined_fetch"
  /\ \E reply \in replies :
       /\ lastFetch' = GetTransactionReceipt(reply)
       /\ attempts' = Count(attempts)
       /\ mined' = IF /\ mined.at = 0
                      /\ reply.err = "nil"
                      /\ reply.resp # << >>
                      /\ reply.resp[1].blockNumber # << >>
                    THEN [at |-> attempts', receipt |-> reply.resp]
                    ELSE mined
       /\ MinedStep(lastFetch')
  /\ UNCHANGED << op, calls, ctxErr, deadline, minedC, lastHead, ticks,
                  finAttempts, finalAt, failAt, cancelPc, now, lag, prev >>

\* WaitMined, lines 349-350: the select takes ctx.Done().
MinedSelectDone ==
  /\ pc = "mined_select"
  /\ "done" \in SelectReady(ctxErr, minedC)
  /\ minedTicker' = Stop(minedTicker)
  /\ AfterWaitMined(<< >>, CtxError(ctxErr))
  /\ UNCHANGED << op, calls, ctxErr, deadline, minedC, lastFetch, lastHead,
                  attempts, ticks, finAttempts, mined, finalAt, failAt,
                  cancelPc, now, lag, prev >>

\* WaitMined, line 351: the select takes the tick and the loop goes round.
MinedSelectTick ==
  /\ pc = "mined_select"
  /\ "tick" \in SelectReady(ctxErr, minedC)
  /\ minedC' = FALSE
  /\ ticks' = IF minedC THEN Count(ticks) ELSE ticks
  /\ pc' = "mined_fetch"
  /\ UNCHANGED << op, calls, ctxErr, deadline, minedTicker, finTicker, finC,
                  lastFetch, receipt, lastHead, ret, attempts, finAttempts,
                  mined, finalAt, failAt, cancelPc, now, lag, prev >>

\* WaitFinalized, lines 368-377: one finalized-block fetch, made with ctx,
\* and the test of its result.
FinFetch ==
  /\ pc = "fin_fetch"
  /\ \E reply \in CallContextReplies(ctxErr) :
       /\ lastHead' = reply
       /\ finAttempts' = Count(finAttempts)
       /\ failAt' = IF failAt = 0 /\ (reply.err # "nil" \/ reply.head = << >>)
                      THEN finAttempts' ELSE failAt
       /\ finalAt' = IF /\ finalAt = 0
                        /\ reply.err = "nil"
                        /\ reply.head # << >>
                        /\ reply.head[1] >= receipt[1].blockNumber[1]
                      THEN finAttempts' ELSE finalAt
       /\ FinStep(reply)
  /\ UNCHANGED << op, calls, ctxErr, deadline, minedTicker, minedC, finC,
                  lastFetch, receipt, attempts, ticks, mined, cancelPc, now,
                  lag, prev >>

\* WaitFinalized, lines 380-381: the select takes ctx.Done().
FinSelectDone ==
  /\ pc = "fin_select"
  /\ "done" \in SelectReady(ctxErr, finC)
  /\ ret' = [receipt |-> << >>, err |-> CtxError(ctxErr)]
  /\ finTicker' = Stop(finTicker)
  /\ pc' = "done"
  /\ UNCHANGED << op, calls, ctxErr, deadline, minedTicker, minedC, finC,
                  lastFetch, receipt, lastHead, attempts, ticks, finAttempts,
                  mined, finalAt, failAt, cancelPc, now, lag, prev >>

\* WaitFinalized, line 382: the select takes the tick.
FinSelectTick ==
  /\ pc = "fin_select"
  /\ "tick" \in SelectReady(ctxErr, finC)
  /\ finC' = FALSE
  /\ pc' = "fin_fetch"
  /\ UNCHANGED << op, calls, ctxErr, deadline, minedTicker, minedC, finTicker,
                  lastFetch, receipt, lastHead, ret, attempts, ticks,
                  finAttempts, mined, finalAt, failAt, cancelPc, now, lag, prev >>

\* The context becomes done while the operation runs: the caller cancels
\* it, or a deadline that the clock of this model does not follow passes.
Cancel ==
  /\ pc \notin {"idle", "done"}
  /\ ctxErr = "nil"
  /\ \E cerr \in (IF deadline = 0 THEN CtxErrs ELSE {"Canceled"}) : ctxErr' = cerr
  /\ cancelPc' = pc
  /\ UNCHANGED << pc, op, calls, deadline, minedTicker, minedC, finTicker,
                  finC, lastFetch, receipt, lastHead, ret, attempts, ticks,
                  finAttempts, mined, finalAt, failAt, now, lag, prev >>

\* The goroutine is blocked in a select none of whose cases is ready.
Blocked ==
  \/ pc = "mined_select" /\ SelectReady(ctxErr, minedC) = {}
  \/ pc = "fin_select" /\ SelectReady(ctxErr, finC) = {}

\* One tick interval passes: a running ticker puts a tick in its channel
\* (capacity one: the tick is dropped when one is buffered), and a context
\* whose deadline is reached is done with DeadlineExceeded.
Tick ==
  /\ pc \notin {"idle", "done"}
  /\ minedC' = (minedC \/ minedTicker = "running")
  /\ finC' = (finC \/ finTicker = "running")
  /\ now' = IF deadline = 0 THEN now ELSE Min(now + 1, MaxNow)
  /\ lag' = (lag \/ (deadline # 0 /\ ~Blocked))
  /\ IF deadline # 0 /\ now' >= deadline /\ ctxErr = "nil"
       THEN ctxErr' = "DeadlineExceeded" /\ cancelPc' = pc
       ELSE UNCHANGED << ctxErr, cancelPc >>
  /\ UNCHANGED << pc, op, calls, deadline, minedTicker, finTicker, lastFetch,
                  receipt, lastHead, ret, attempts, ticks, finAttempts, mined,
                  finalAt, failAt, prev >>

\* --------------------------------------------------------- specifications
\* Every call, with every reply the node can give.  The deadline of a
\* context is the Cancel action here: it can pass at any moment.
CallWaitMined ==
  \E cerr \in {"nil"} \cup CtxErrs : Call("WaitMined", cerr, 0)

CallWaitFinalized ==
  \E cerr \in {"nil"} \cup CtxErrs : Call("WaitFinalized", cerr, 0)

FetchReceipt == MinedFetch(ReceiptReplies)

Next ==
  \/ CallWaitMined
  \/ CallWaitFinalized
  \/ FetchReceipt
  \/ MinedSelectDone
  \/ MinedSelectTick
  \/ FinFetch
  \/ FinSelectDone
  \/ FinSelectTick
  \/ Cancel
  \/ Tick

Spec == Init /\ [][Next]_vars

\* WaitMined on a transaction whose receipt never becomes available, with a
\* context that has a deadline counted in ticks or none.  The goroutine
\* runs (weak fairness of its steps and of the clock); a fetch returns; and
\* the select, which picks at random among its ready cases, takes a case
\* that is ready again and again (strong fairness).
CallWaitMinedTimed ==
  \E cerr \in {"nil"} \cup CtxErrs, dl \in 0..MaxDeadline : Call("WaitMined", cerr, dl)

FetchUnminedReceipt == MinedFetch(UnminedReplies)

NextUnmined ==
  \/ CallWaitMinedTimed
  \/ FetchUnminedReceipt
  \/ MinedSelectDone
  \/ MinedSelectTick
  \/ Cancel
  \/ Tick

LiveSpec ==
  /\ Init
  /\ [][NextUnmined]_vars
  /\ WF_vars(FetchUnminedReceipt)
  /\ WF_vars(Tick)
  /\ SF_vars(MinedSelectDone)
  /\ SF_vars(MinedSelectTick)

\* ------------------------------------------------------------- properties
\* WaitMined has returned to WaitFinalized with a receipt.
PastMining == op = "WaitFinalized" /\ receipt # << >>

\* C1: WaitMined returns a receipt with a nil error only when the receipt
\* fetch of that same iteration succeeded and the fetched receipt has a block
\* number: the receipt returned is the one just fetched, it is the reply of
\* the latest fetch, and it carries a block number.
C1_ReturnsOnlyMinedReceipt ==
  /\ (op = "WaitMined" /\ pc = "done" /\ ret.err = NoErr) =>
       /\ ret.receipt # << >>
       /\ ret.receipt[1].blockNumber # << >>
       /\ lastFetch = [receipt |-> ret.receipt, err |-> NoErr]
       /\ mined = [at |-> attempts, receipt |-> ret.receipt]
  /\ PastMining =>
       /\ receipt[1].blockNumber # << >>
       /\ lastFetch = [receipt |-> receipt, err |-> NoErr]
       /\ mined = [at |-> attempts, receipt |-> receipt]

\* C1 witness: WaitMined returned a receipt after fetches that failed, with
\* the context cancelled meanwhile.
C1_Witness ==
  /\ op = "WaitMined" /\ pc = "done"
  /\ ret.err = NoErr /\ ret.receipt # << >>
  /\ attempts = 3
  /\ cancelPc = "mined_select"

\* The latest receipt fetch failed or brought a receipt without block number.
LastFetchUnmined ==
  \/ lastFetch.err # NoErr
  \/ lastFetch.receipt = << >>
  \/ lastFetch.receipt[1].blockNumber = << >>

\* An error returned by WaitMined is ctx.Err(), bare to WaitMined's caller
\* and wrapped once by WaitFinalized.
C2_OnlyCancellationError ==
  /\ (op = "WaitMined" /\ pc = "done" /\ ret.err # NoErr) =>
       /\ ctxErr \in CtxErrs
       /\ ret = [receipt |-> << >>, err |-> [wrap |-> "", cause |-> ctxErr]]
  /\ (op = "WaitFinalized" /\ pc = "done" /\ finAttempts = 0 /\ receipt = << >>) =>
       /\ ctxErr \in CtxErrs
       /\ ret = [receipt |-> << >>,
                 err |-> [wrap |-> "failed to wait for tx is mined", cause |-> ctxErr]]

\* A fetch that fails or brings no block number leads to the wait, and the
\* wait leads to the next fetch or, the context being done, to the return.
C2_RetryStep ==
  /\ (pc = "mined_fetch" /\ pc' # pc /\ LastFetchUnmined') =>
       pc' = "mined_select" /\ ret' = ret
  /\ (pc = "mined_select" /\ pc' # pc) =>
       \/ pc' = "mined_fetch" /\ ret' = ret
       \/ pc' = "done" /\ ctxErr \in CtxErrs

\* C2: in WaitMined every failed receipt fetch (not found, transport error)
\* and every receipt without a block number is followed by the wait for the
\* next poll; WaitMined never returns the fetch error, the only error it
\* returns is the cancellation reason of the context.
C2_FailedFetchIsRetried == [][C2_RetryStep /\ C2_OnlyCancellationError']_vars

\* C2 witness: WaitMined returned the cancellation reason after three fetches
\* the last of which was a transport error.
C2_Witness ==
  /\ op = "WaitMined" /\ pc = "done"
  /\ attempts = 3
  /\ lastFetch.err.cause = "Transport"
  /\ ret.err = [wrap |-> "", cause |-> "Canceled"]

\* C3 as stated: if the context is done before any mined receipt was fetched
\* (already at the call, during a fetch, or during a wait), WaitMined returns
\* the cancellation error and never a receipt.
C3_Original ==
  (op = "WaitMined" /\ pc = "done" /\ cancelPc # "") =>
     ret = [receipt |-> << >>, err |-> [wrap |-> "", cause |-> ctxErr]]

\* C3 amended: if the context is done before any mined receipt was fetched,
\* WaitMined returns the cancellation error, carrying the context's reason,
\* and no receipt, unless a receipt fetch that completes after the
\* cancellation finds the mined receipt: then that receipt is returned.
C3_CancelledUnlessMinedLater ==
  (op = "WaitMined" /\ pc = "done" /\ cancelPc # "") =>
     IF mined.at # 0
       THEN ret = [receipt |-> mined.receipt, err |-> NoErr]
       ELSE ret = [receipt |-> << >>, err |-> [wrap |-> "", cause |-> ctxErr]]

\* C3 witness: the deadline passed during a wait, after a fetch that found
\* nothing, and WaitMined returned DeadlineExceeded.
C3_Witness ==
  /\ op = "WaitMined" /\ pc = "done"
  /\ cancelPc = "mined_select"
  /\ attempts >= 1
  /\ mined.at = 0
  /\ ret = [receipt |-> << >>, err |-> [wrap |-> "", cause |-> "DeadlineExceeded"]]

\* The latest finalized-block fetch brought a header whose number has
\* reached the block of the receipt.
LastHeadFinal ==
  /\ lastHead.err = "nil"
  /\ lastHead.head # << >>
  /\ lastHead.head[1] >= receipt[1].blockNumber[1]

\* C4: WaitFinalized returns success only with the receipt its WaitMined
\* call returned, only in an iteration whose fetched finalized block number
\* is >= the block number of that receipt, and at the first such iteration.
C4_FinalizedReturnsMinedReceipt ==
  /\ (op = "WaitFinalized" /\ pc = "done" /\ ret.err = NoErr) =>
       /\ ret.receipt = receipt
       /\ receipt = mined.receipt
       /\ receipt # << >>
       /\ LastHeadFinal
       /\ finalAt = finAttempts
  /\ (op = "WaitFinalized" /\ finalAt # 0) =>
       /\ pc = "done"
       /\ finAttempts = finalAt
       /\ ret = [receipt |-> mined.receipt, err |-> NoErr]

\* C4 witness: receipt in block 2, finalized numbers below 2 twice and then
\* 3: success at the third finalized-block fetch, with the receipt.
C4_Witness ==
  /\ op = "WaitFinalized" /\ pc = "done"
  /\ receipt = << [blockNumber |-> <<2>>] >>
  /\ finAttempts = 3 /\ finalAt = 3
  /\ lastHead.head = <<3>>
  /\ ret = [receipt |-> receipt, err |-> NoErr]

\* C5: a finalized-block fetch that fails, or that brings no header, ends
\* WaitFinalized in that iteration, whichever iteration it is: no further
\* finalized-block fetch is made, no receipt is returned, and the error
\* wraps the failure of the fetch (NotFound for a missing header).
C5_FinalizedFetchFailureIsFatal ==
  (op = "WaitFinalized" /\ failAt # 0) =>
     /\ pc = "done"
     /\ finAttempts = failAt
     /\ finalAt = 0
     /\ ret = [receipt |-> << >>,
               err |-> [wrap |-> "failed to get finalized block",
                        cause |-> IF lastHead.err = "nil" THEN "NotFound"
                                  ELSE lastHead.err]]

\* C5 witness: the second finalized-block fetch failed with a transport
\* error while the context was live, and WaitFinalized has returned.
C5_Witness ==
  /\ op = "WaitFinalized" /\ pc = "done"
  /\ failAt = 2
  /\ lastHead.err = "Transport"
  /\ ctxErr = "nil"

\* C6: when the WaitMined call of WaitFinalized fails, WaitFinalized returns
\* that failure wrapped, with no receipt, and makes no finalized-block fetch
\* (nor a second ticker); every finalized-block fetch is made after a mined
\* receipt was fetched, for that receipt.
C6_MiningFailurePropagates ==
  /\ (op = "WaitFinalized" /\ pc = "done" /\ mined.at = 0) =>
       /\ ctxErr \in CtxErrs
       /\ ret = [receipt |-> << >>,
                 err |-> [wrap |-> "failed to wait for tx is mined", cause |-> ctxErr]]
       /\ finAttempts = 0
       /\ finTicker = "none"
  /\ (finAttempts > 0 \/ pc \in {"fin_fetch", "fin_select"}) =>
       /\ op = "WaitFinalized"
       /\ mined.at # 0
       /\ receipt = mined.receipt

\* C6 witness: WaitFinalized returned the wrapped cancellation after two
\* receipt fetches that found nothing.
C6_Witness ==
  /\ op = "WaitFinalized" /\ pc = "done"
  /\ attempts = 2 /\ mined.at = 0
  /\ ret.err.wrap = "failed to wait for tx is mined"

\* The context became done while WaitFinalized was in its polling loop.
CancelledInStep3 ==
  op = "WaitFinalized" /\ pc = "done" /\ cancelPc \in {"fin_fetch", "fin_select"}

\* C7 as stated: once the context is done during the finalized-block loop,
\* WaitFinalized never returns the receipt and the error it returns is the
\* cancellation error (bare from the wait, wrapped from the fetch).
C7_Original ==
  CancelledInStep3 => ret.receipt = << >> /\ ret.err.cause = ctxErr

\* C7 amended: once the context is done during the finalized-block loop,
\* a wait that sees it returns ctx.Err() bare with no receipt, and a fetch
\* that fails, with the context's error or its own, returns that failure
\* wrapped with no receipt; but a fetch that completes after the
\* cancellation with a header whose number has reached the receipt's block
\* still returns the receipt.
C7_CancelledInFinalizedLoop ==
  CancelledInStep3 =>
     \/ /\ ret = [receipt |-> << >>, err |-> [wrap |-> "", cause |-> ctxErr]]
        /\ failAt = 0 /\ finalAt = 0
     \/ /\ failAt = finAttempts /\ finalAt = 0
        /\ ret = [receipt |-> << >>,
                  err |-> [wrap |-> "failed to get finalized block",
                           cause |-> IF lastHead.err = "nil" THEN "NotFound"
                                     ELSE lastHead.err]]
     \/ /\ finalAt = finAttempts /\ failAt = 0
        /\ LastHeadFinal
        /\ ret = [receipt |-> receipt, err |-> NoErr]

\* C7 witness: the context was cancelled during a wait of the finalized
\* loop, a fetch took the cancellation, and WaitFinalized returned it wrapped.
C7_Witness ==
  /\ CancelledInStep3
  /\ cancelPc = "fin_select"
  /\ finAttempts = 2
  /\ lastHead.err = "Canceled"
  /\ ret.err = [wrap |-> "failed to get finalized block", cause |-> "Canceled"]

\* C8: with no cancellation, WaitMined returns exactly the first reply that
\* has a block number, after as many fetches as the position of that reply
\* and one tick less, and makes no fetch afterwards; a WaitMined whose first
\* reply has a block number returns it after one fetch and no tick, so two
\* calls on a mined transaction return equal receipts with one fetch each.
C8_ReturnsAtFirstMinedReply ==
  /\ (op = "WaitMined" /\ pc = "done" /\ cancelPc = "" /\ attempts <= MaxAttempts) =>
       /\ mined.at = attempts
       /\ ret = [receipt |-> mined.receipt, err |-> NoErr]
       /\ ticks = attempts - 1
  /\ mined.at # 0 =>
       /\ attempts = mined.at
       /\ pc \notin {"mined_fetch", "mined_select"}
  /\ prev.first # << >> =>
       /\ prev.ret = [receipt |-> prev.first, err |-> NoErr]
       /\ prev.attempts = 1
       /\ prev.ticks = 0
  /\ (op = "WaitMined" /\ pc = "done" /\ mined.at = 1 /\ prev.first = mined.receipt) =>
       /\ ret = prev.ret
       /\ attempts = 1
       /\ ticks = 0

\* C8 witness: replies NotFound, NotFound, receipt in block 2: the receipt
\* is returned after three fetches and two ticks.
C8_Witness ==
  /\ op = "WaitMined" /\ pc = "done" /\ cancelPc = ""
  /\ attempts = 3 /\ ticks = 2
  /\ mined = [at |-> 3, receipt |-> << [blockNumber |-> <<2>>] >>]
  /\ ret = [receipt |-> << [blockNumber |-> <<2>>] >>, err |-> NoErr]

\* Two calls of WaitMined on a mined transaction have returned.
C8_TwoCallsReached ==
  /\ op = "WaitMined" /\ pc = "done" /\ calls = 2
  /\ mined.at = 1 /\ prev.first = mined.receipt

\* C10: every ticker a wait operation created is stopped once the operation
\* has returned, whatever the exit; a ticker runs while its loop runs; and
\* WaitFinalized never has two running tickers: WaitMined's is stopped
\* before the finalization ticker is created.
C10_TickersStopped ==
  /\ pc = "done" => minedTicker = "stopped" /\ finTicker \in {"none", "stopped"}
  /\ pc \in {"mined_fetch", "mined_select"} =>
       minedTicker = "running" /\ finTicker = "none"
  /\ pc \in {"fin_fetch", "fin_select"} =>
       minedTicker = "stopped" /\ finTicker = "running"
  /\ ~(minedTicker = "running" /\ finTicker = "running")

\* C10 witness: WaitFinalized returned on a finalized-block fetch error, both
\* of its tickers stopped.
C10_Witness ==
  /\ op = "WaitFinalized" /\ pc = "done"
  /\ failAt # 0
  /\ minedTicker = "stopped" /\ finTicker = "stopped"

\* C9 as stated, for the deadline of two ticks: by the third tick WaitMined
\* has failed with the cancellation error.
C9_Original ==
  (op = "WaitMined" /\ deadline = 2 /\ now >= 3) =>
     pc = "done" /\ ret.err.cause \in CtxErrs

\* WaitMined returns, on a transaction whose receipt never becomes
\* available, only with the context done and with its error; and with a
\* deadline, as long as no tick has passed while a fetch was in flight or
\* the select had a ready case, no tick passes beyond the deadline before
\* the return, which is never before the deadline unless the caller cancels.
C9_ReturnsOnlyCancelled ==
  /\ (op = "WaitMined" /\ pc = "done") =>
       /\ ctxErr \in CtxErrs
       /\ ret = [receipt |-> << >>, err |-> [wrap |-> "", cause |-> ctxErr]]
  /\ (deadline # 0 /\ ~lag) => now <= deadline
  /\ (deadline # 0 /\ pc = "done" /\ ctxErr = "DeadlineExceeded") => now >= deadline

\* C9 amended: for a transaction whose receipt never becomes available,
\* WaitMined returns only once the context is done; while the context is
\* live every wait is followed by another fetch; once the context is done
\* WaitMined eventually returns its error; with a deadline of d ticks it
\* returns DeadlineExceeded not before tick d, and before tick d + 1 when no
\* tick passes while a receipt fetch is in flight (the fetch is made
\* without the context) or while the select has a ready case.
C9_PollsUntilCancelled ==
  /\ []C9_ReturnsOnlyCancelled
  /\ (pc = "mined_select" /\ ctxErr = "nil") ~> (pc = "mined_fetch" \/ ctxErr # "nil")
  /\ (pc \in {"mined_fetch", "mined_select"} /\ ctxErr # "nil")
        ~> (pc = "done" /\ ret.err.cause \in CtxErrs)

\* C9 witness: deadline of two ticks, three fetches that found nothing, no
\* tick passed during a fetch: DeadlineExceeded returned at the second tick.
C9_Witness ==
  /\ op = "WaitMined" /\ pc = "done"
  /\ deadline = 2 /\ now = 2 /\ ~lag
  /\ attempts = 3 /\ ticks = 2
  /\ ret = [receipt |-> << >>, err |-> [wrap |-> "", cause |-> "DeadlineExceeded"]]

=============================================================================
